---------------------------- MODULE Spec2Model ----------------------------
(***************************************************************************)
(* A model of virtool.pathoscope: the coverage compressor of utils.py and  *)
(* the PathoscopeBowtie job of job.py.                                     *)
(*                                                                         *)
(* Python lists are sequences (index i of the code is index i + 1 here);   *)
(* positions inside coordinate pairs keep the code's 0-based numbering.    *)
(* Weights and probabilities are integers in units of 1/Scale.  A line of  *)
(* aligner output is the sequence of its tab-separated fields, each field  *)
(* a string.  A file is the sequence of its records.                       *)
(***************************************************************************)
EXTENDS Integers, Sequences, FiniteSets, TLC

VARIABLES
    \* ---- utils.coverage_to_coordinates ----
    cov_pc,          \* "call", "loop", "return" or "raise"
    coverage_list,   \* the argument
    cov_i,           \* the loop index i (0-based)
    previous_depth,  \* the local previous_depth
    coordinates,     \* the local coordinates: a set, then the sorted list
    compressed,      \* the value returned
    \* ---- job.PathoscopeBowtie ----
    stage,           \* index into _stage_list of the next stage to run
    status,          \* "running", "complete", "failed" or "cleaned"
    error,           \* the exception that failed the job, "" if none
    log,             \* the stages that have returned, in order
    task_args,       \* self.task_args: otu_dict and sequence_otu_map
    intermediate,    \* self.intermediate, a dict
    results,         \* self.results, a dict
    batch,           \* the last aligner run: its stage, its output lines
                     \* and how many of them the handler has returned from
    analysis_dir,    \* whether params["analysis_path"] exists
    vta,             \* to_isolates.vta, a sequence of records
    reassigned,      \* reassigned.vta: <<>> when absent, else <<records>>
    patho,           \* what run_patho did and returned, <<>> before it ran
    analysis,        \* the analysis document of db.analyses: <<>> when
                     \* deleted, else <<document>>
    json_file,       \* pathoscope.json: <<>> when absent, else <<content>>
    io_log,          \* the database and file writes and dispatches, in order
    import_pc        \* import_results: 0 outside its except block, else the
                     \* index of the statement of the block to run next

cov_vars ==
    <<cov_pc, coverage_list, cov_i, previous_depth, coordinates, compressed>>

job_vars ==
    <<stage, status, error, log, task_args, intermediate, results, batch,
      analysis_dir, vta, reassigned, patho, analysis, json_file, io_log,
      import_pc>>

vars == <<cov_vars, job_vars>>

-----------------------------------------------------------------------------
(* Bounds of the model.                                                    *)

\* Longest depth array enumerated exhaustively.
MaxLen == 4

\* Largest depth value in the enumerated arrays.
MaxDepth == 2

\* Length of the alternating array that drives the function over its
\* simplification threshold.
LongLen == 102

-----------------------------------------------------------------------------
(* utils.py                                                                *)

\* utils.py line 20: len(coordinates) > 100
SimplifyThreshold == 100

\* utils.py line 21: ratio=0.4, in percent
SimplifyRatioPercent == 40

Abs(x) == IF x < 0 THEN -x ELSE x

SetMin(S) == CHOOSE m \in S : \A x \in S : m <= x

ElementsOf(seq) == {seq[k] : k \in DOMAIN seq}

\* One pass of the loop body (lines 12-16) at index i (0-based), on the
\* loop's state st = [previous_depth, coordinates].
LoopBodyNoLast(i, depth, last, st) ==
    IF depth # st.previous_depth
    THEN [previous_depth |-> depth,
          coordinates |-> st.coordinates \cup
              {<<i - 1, st.previous_depth>>, <<i, depth>>}]
    ELSE st

LoopBodySamePosition(i, depth, last, st) ==
    IF depth # st.previous_depth \/ i = last
    THEN [previous_depth |-> depth,
          coordinates |-> st.coordinates \cup
              {<<i, st.previous_depth>>, <<i, depth>>}]
    ELSE st

LoopBody(i, depth, last, st) ==
    IF depth # st.previous_depth \/ i = last
    THEN [previous_depth |-> depth,
          coordinates |-> st.coordinates \cup
              {<<i - 1, st.previous_depth>>, <<i, depth>>}]
    ELSE st

\* for i, depth in enumerate(coverage_list), from index i on.
RECURSIVE LoopFrom(_, _, _)
LoopFrom(list, i, st) ==
    IF i > Len(list) - 1
    THEN st
    ELSE LoopFrom(list, i + 1, LoopBody(i, list[i + 1], Len(list) - 1, st))

\* Lines 6-16: the set `coordinates` when the loop ends.
ChangePoints(list) ==
    LoopFrom(list, 0,
             [previous_depth |-> list[1],
              coordinates |-> {<<0, list[1]>>}]).coordinates

\* Line 18: sorted(list(coordinates), key=lambda x: x[0]).  The sort is
\* stable on the set's iteration order, which Python does not fix: pairs
\* with equal positions may come out in any order.  The set of all lists
\* the sort can produce, built by splitting at a middle position.
RECURSIVE SortedByPosition(_)
SortedByPosition(S) ==
    IF S = {}
    THEN {<<>>}
    ELSE LET positions == {c[1] : c \in S}
             lowest == SetMin(positions)
             highest == -SetMin({-p : p \in positions})
         IN  IF lowest = highest
             THEN UNION {{<<c>> \o rest : rest \in SortedByPosition(S \ {c})}
                         : c \in S}
             ELSE LET middle == (lowest + highest) \div 2
                      lower == {c \in S : c[1] <= middle}
                      upper == {c \in S : c[1] > middle}
                  IN  {a \o b : a \in SortedByPosition(lower),
                                b \in SortedByPosition(upper)}

\* Twice the area of the triangle a, b, c.
TriangleArea2(a, b, c) ==
    Abs(a[1] * (b[2] - c[2]) + b[1] * (c[2] - a[2]) + c[1] * (a[2] - b[2]))

RemoveAt(s, k) == SubSeq(s, 1, k - 1) \o SubSeq(s, k + 1, Len(s))

\* Area-based vertex elimination down to n points: the interior vertex of
\* least triangle area goes first (the first such on a tie); the end
\* points stay.
RECURSIVE Eliminate(_, _)
Eliminate(pts, n) ==
    IF Len(pts) <= n \/ Len(pts) <= 2
    THEN pts
    ELSE LET area(k) == TriangleArea2(pts[k - 1], pts[k], pts[k + 1])
             interior == 2 .. (Len(pts) - 1)
             least == SetMin({area(k) : k \in interior})
             k0 == SetMin({k \in interior : area(k) = least})
         IN  Eliminate(RemoveAt(pts, k0), n)

\* Line 21: vw.simplify(coordinates, ratio=0.4).
Simplify(pts) == Eliminate(pts, (Len(pts) * SimplifyRatioPercent) \div 100)

\* Lines 20-23, on one sorted list.
Threshold(sorted) ==
    IF Len(sorted) > SimplifyThreshold THEN Simplify(sorted) ELSE sorted

\* coverage_to_coordinates, lines 6-9.  An empty list fails at line 6
\* (coverage_list[0]).
CovEnter ==
    /\ cov_pc = "call"
    /\ IF Len(coverage_list) = 0
       THEN /\ cov_pc' = "raise"
            /\ UNCHANGED <<cov_i, previous_depth, coordinates>>
       ELSE /\ previous_depth' = coverage_list[1]
            /\ coordinates' = {<<0, coverage_list[1]>>}
            /\ cov_i' = 0
            /\ cov_pc' = "loop"
    /\ UNCHANGED <<coverage_list, compressed, job_vars>>

\* Lines 11-16: one iteration of the loop.
CovIterate ==
    /\ cov_pc = "loop"
    /\ cov_i <= Len(coverage_list) - 1
    /\ LET st == LoopBody(cov_i, coverage_list[cov_i + 1],
                          Len(coverage_list) - 1,
                          [previous_depth |-> previous_depth,
                           coordinates |-> coordinates])
       IN  /\ previous_depth' = st.previous_depth
           /\ coordinates' = st.coordinates
    /\ cov_i' = cov_i + 1
    /\ UNCHANGED <<cov_pc, coverage_list, compressed, job_vars>>

\* Lines 18-23: the sort, the threshold and the return.
CovReturn ==
    /\ cov_pc = "loop"
    /\ cov_i > Len(coverage_list) - 1
    /\ \E sorted \in SortedByPosition(coordinates) :
          /\ coordinates' = sorted
          /\ compressed' = Threshold(sorted)
    /\ cov_pc' = "return"
    /\ UNCHANGED <<coverage_list, cov_i, previous_depth, job_vars>>

\* The values coverage_to_coordinates can return for a non-empty list.
coverage_to_coordinates(list) ==
    {Threshold(sorted) : sorted \in SortedByPosition(ChangePoints(list))}

-----------------------------------------------------------------------------
(* Text, numbers and aligner output lines.                                 *)

\* Most lines an aligner run of map_otus emits.
MaxOtuLines == 1

\* Most lines an aligner run of map_isolates emits.
MaxIsolateLines == 3

\* Most lines an aligner run of map_subtraction emits.
MaxSubtractionLines == 1

\* Resolution of weights and probabilities: 1.0 is Scale units.
Scale == 10 * 10 * 10

Min(a, b) == IF a <= b THEN a ELSE b

Max(a, b) == IF a >= b THEN a ELSE b

\* str(n): of an integer, or of a weight given in units.
Str(n) == ToString(n)

\* The texts int() and float() accept, each with its value; any other text
\* makes them raise ValueError.
NumberOf ==
    [s \in {Str(n) : n \in 0 .. Scale} |->
        CHOOSE n \in 0 .. Scale : Str(n) = s]

IsNumber(s) == s \in DOMAIN NumberOf

\* len() of a read sequence.
TextLen(s) ==
    CASE s = "ACGT" -> 4
      [] s = "ACG" -> 3
      [] s = "AC" -> 2
      [] OTHER -> 1

\* line[0]: the first character of a line, read off its first field.
FirstChar(line) ==
    CASE line[1] \in {"@HD", "@SQ"} -> "@"
      [] line[1] \in {"#", "#c"} -> "#"
      [] OTHER -> "r"

\* n & 0x4 == 4
Bit4(n) == (n \div 4) % 2 = 1

\* The alignment-score annotation of a line.
AlignScoreTag(n) == "AS:i:" \o Str(n)

ScoreOfTag ==
    [t \in {AlignScoreTag(n) : n \in 1 .. (Scale \div 5)} |->
        CHOOSE n \in 1 .. (Scale \div 5) : AlignScoreTag(n) = t]

\* pathoscope.find_sam_align_score(fields): the normalized weight of an
\* alignment, increasing in its alignment score, in (0, 1].  It needs the
\* read sequence (field 10) and the annotation (among the optional fields,
\* from field 12 on).
find_sam_align_score(fields) ==
    LET tags == {k \in DOMAIN fields :
                    k >= 12 /\ fields[k] \in DOMAIN ScoreOfTag}
    IN  IF Len(fields) < 10
        THEN [raised |-> "IndexError", score |-> 0]
        ELSE IF tags = {}
        THEN [raised |-> "ValueError", score |-> 0]
        ELSE [raised |-> "",
              score |-> 5 * ScoreOfTag[fields[CHOOSE k \in tags :
                                               \A j \in tags : k <= j]]]

\* One line of SAM output.
SamLine(qname, flag, rname, pos, seq, score) ==
    <<qname, flag, rname, pos, "42", "4M", "*", "0", "0", seq, "IIII",
      AlignScoreTag(score)>>

\* The sequences of db.sequences: their otu and their length.
SequenceIds == {"A", "B", "C"}

OtuOf(id) == IF id = "C" THEN "otu2" ELSE "otu1"

SequenceLength(id) == CASE id = "A" -> 4 [] id = "B" -> 3 [] OTHER -> 2

\* Lines the aligner can emit in map_otus, whose index holds every sequence.
OtuLines ==
    {SamLine("r1", "0", "A", "1", "ACGT", 200),
     SamLine("r2", "16", "C", "1", "ACG", 100),
     SamLine("r3", "4", "*", "0", "AC", 1),
     <<"@HD", "VN:1.0">>,
     <<"#c">>,
     <<"r1", "x">>}

\* Lines the aligner can emit in map_isolates.
IsolateCandidates ==
    {SamLine("r1", "0", "A", "1", "ACGT", 200),
     SamLine("r2", "16", "A", "2", "ACG", 100),
     SamLine("r2", "0", "B", "1", "ACG", 180),
     SamLine("r3", "0", "B", "3", "AC", 2),
     SamLine("r3", "0", "A", "1", "AC", 1),
     SamLine("r4", "20", "A", "1", "AC", 200),
     SamLine("r4", "0", "*", "0", "AC", 200),
     SamLine("r1", "0", "C", "1", "AC", 200),
     SamLine("r1", "x", "*", "0", "ACGT", 200),
     <<"@HD", "VN:1.0">>,
     <<"#">>,
     <<"#c">>}

\* The index of map_isolates holds the sequences of isolate_index.fa only.
IsolateLines(index) ==
    {l \in IsolateCandidates : Len(l) < 3 \/ l[3] \in index \cup {"*"}}

\* Lines the aligner can emit in map_subtraction, which aligns the reads of
\* mapped.fastq to the subtraction host.
SubtractionCandidates ==
    {SamLine("r2", "0", "host", "7", "ACG", 180),
     SamLine("r1", "0", "host", "9", "ACGT", 100),
     SamLine("r3", "4", "*", "0", "AC", 1),
     <<"r1", "x">>}

SubtractionLines(mapped) == {l \in SubtractionCandidates : l[1] \in mapped}

\* The sequences of at most n lines over a set of lines.
Batches(lines, n) == UNION {[1 .. k -> lines] : k \in 0 .. n}

-----------------------------------------------------------------------------
(* The stdout handlers of job.py.  A handler returns, emits one value and  *)
(* returns, or raises.                                                     *)

\* job.py line 220: p_score_cutoff=0.01
PScoreCutoff == Scale \div 100

Return == [kind |-> "return", value |-> <<>>, raised |-> ""]

Emit(v) == [kind |-> "emit", value |-> <<v>>, raised |-> ""]

Raise(e) == [kind |-> "raise", value |-> <<>>, raised |-> e]

\* map_otus.stdout_handler (lines 131-152): emits the ref_id added to
\* to_otus.
OtusHandler(line) ==
    IF FirstChar(line) = "#" \/ FirstChar(line) = "@" THEN Return
    ELSE IF Len(line) < 2 THEN Raise("IndexError")
    ELSE IF ~IsNumber(line[2]) THEN Raise("ValueError")
    ELSE IF Bit4(NumberOf[line[2]]) THEN Return
    ELSE IF Len(line) < 3 THEN Raise("IndexError")
    ELSE IF line[3] = "*" THEN Return
    ELSE LET p_score == find_sam_align_score(line)
         IN  IF p_score.raised # "" THEN Raise(p_score.raised)
             ELSE IF p_score.score < PScoreCutoff THEN Return
             ELSE Emit(line[3])

\* map_isolates.stdout_handler (lines 220-249): emits the record written to
\* to_isolates.vta.
IsolatesHandler(line) ==
    IF FirstChar(line) = "@" \/ line = <<"#">> THEN Return
    ELSE IF Len(line) < 2 THEN Raise("IndexError")
    ELSE IF ~IsNumber(line[2]) THEN Raise("ValueError")
    ELSE IF Bit4(NumberOf[line[2]]) THEN Return
    ELSE IF Len(line) < 3 THEN Raise("IndexError")
    ELSE IF line[3] = "*" THEN Return
    ELSE LET p_score == find_sam_align_score(line)
         IN  IF p_score.raised # "" THEN Raise(p_score.raised)
             ELSE IF p_score.score < PScoreCutoff THEN Return
             ELSE Emit(<<line[1], line[3], line[4],
                         Str(TextLen(line[10])), Str(p_score.score)>>)

\* map_subtraction.stdout_handler (lines 270-286): emits the pair stored in
\* to_subtraction.
SubtractionHandler(line) ==
    IF FirstChar(line) = "@" \/ line = <<"#">> THEN Return
    ELSE IF Len(line) < 2 THEN Raise("IndexError")
    ELSE IF ~IsNumber(line[2]) THEN Raise("ValueError")
    ELSE IF Bit4(NumberOf[line[2]]) THEN Return
    ELSE IF Len(line) < 3 THEN Raise("IndexError")
    ELSE IF line[3] = "*" THEN Return
    ELSE LET p_score == find_sam_align_score(line)
         IN  IF p_score.raised # "" THEN Raise(p_score.raised)
             ELSE Emit(<<line[1], p_score.score>>)

\* self.run_subprocess(command, stdout_handler=...): the handler is called
\* on each line in order, outcomes[k] being what it does on lines[k]; an
\* exception it raises ends the run.  The result:
\* how many lines the handler returned from, what it emitted, in order, and
\* the exception.
RunSubprocess(lines, outcomes) ==
    LET raising == {k \in DOMAIN lines : outcomes[k].kind = "raise"}
        stop == IF raising = {} THEN Len(lines) + 1 ELSE SetMin(raising)
        emits == SelectSeq(SubSeq(outcomes, 1, stop - 1),
                           LAMBDA o : o.kind = "emit")
    IN  [handled |-> stop - 1,
         emitted |-> [k \in DOMAIN emits |-> emits[k].value[1]],
         raised |-> IF raising = {} THEN "" ELSE outcomes[stop].raised]

-----------------------------------------------------------------------------
(* The functions of virtool.pathoscope.pathoscope that job.py calls.  A    *)
(* record of a .vta file is <<read_id, ref_id, position, length, score>>,  *)
(* all text.  A reference index is a position in refs, from 1.             *)

\* A sequence and a dict given by a rule, as the values they denote.
List(s) == SubSeq(s, 1, Len(s))

Dict(d) == d @@ <<>>

RECURSIVE SumSeq(_)
SumSeq(s) == IF s = <<>> THEN 0 ELSE s[1] + SumSeq(Tail(s))

\* The members of a set of numbers in ascending order.
Ascending(S) ==
    [k \in 1 .. Cardinality(S) |->
        CHOOSE x \in S : Cardinality({y \in S : y < x}) = k - 1]

\* The distinct values of a sequence, in the order first seen.
FirstSeen(s) ==
    LET firsts == Ascending({k \in DOMAIN s : \A j \in 1 .. k - 1 : s[j] # s[k]})
    IN  [k \in DOMAIN firsts |-> s[firsts[k]]]

IndexOf(s, v) == CHOOSE k \in DOMAIN s : s[k] = v

VtaReads(records) == FirstSeen([k \in DOMAIN records |-> records[k][1]])

VtaRefs(records) == FirstSeen([k \in DOMAIN records |-> records[k][2]])

\* The best weight among the records of a read, or of a read on one
\* reference.
BestWeight(records, read) ==
    -SetMin({-NumberOf[records[k][5]] :
                k \in {j \in DOMAIN records : records[j][1] = read}})

BestWeightOn(records, read, ref) ==
    -SetMin({-NumberOf[records[k][5]] :
                k \in {j \in DOMAIN records :
                          records[j][1] = read /\ records[j][2] = ref}})

\* pathoscope.subtract(analysis_path, to_subtraction): a read whose
\* subtraction weight is at least its best target weight loses all of its
\* records.  The records kept and the number of reads removed.
subtract(records, to_subtraction) ==
    LET removed ==
            {read \in ElementsOf(VtaReads(records)) \cap DOMAIN to_subtraction :
                to_subtraction[read] >= BestWeight(records, read)}
    IN  [kept |-> SelectSeq(records, LAMBDA rec : rec[1] \notin removed),
         subtracted_count |-> Cardinality(removed)]

\* pathoscope.build_matrix(vta_path): u, nu, refs, reads.
build_matrix(records) ==
    LET refs == VtaRefs(records)
        reads == VtaReads(records)
        candidates(read) ==
            FirstSeen(SelectSeq([k \in DOMAIN records |->
                                    IF records[k][1] = read
                                    THEN records[k][2] ELSE ""],
                                LAMBDA r : r # ""))
        unique == {read \in ElementsOf(reads) : Len(candidates(read)) = 1}
        weights(read) ==
            [j \in DOMAIN candidates(read) |->
                BestWeightOn(records, read, candidates(read)[j])]
    IN  [u |-> [read \in unique |->
                   [ref |-> IndexOf(refs, candidates(read)[1]),
                    weight |-> weights(read)[1]]],
         nu |-> [read \in ElementsOf(reads) \ unique |->
                   [j \in DOMAIN candidates(read) |->
                       [ref |-> IndexOf(refs, candidates(read)[j]),
                        weight |-> weights(read)[j],
                        prob |-> (weights(read)[j] * Scale)
                                   \div SumSeq(weights(read))]]],
         refs |-> refs,
         reads |-> reads]

\* The confidence tiers of the best-hit evaluator: 0.8 and 0.5.
HighTier == (Scale * 8) \div 10

MediumTier == (Scale * 5) \div 10

\* The best hit of a read: its reference and its probability.  Among equal
\* probabilities the lowest reference index wins.
BestHit(u, nu, read) ==
    IF read \in DOMAIN u
    THEN [ref |-> u[read].ref, prob |-> Scale]
    ELSE LET top == -SetMin({-nu[read][j].prob : j \in DOMAIN nu[read]})
         IN  [ref |-> SetMin({nu[read][j].ref :
                                j \in {i \in DOMAIN nu[read] :
                                          nu[read][i].prob = top}}),
              prob |-> top]

\* pathoscope.compute_best_hit(u, nu, refs, reads): per reference, the
\* number of reads whose best hit it is, the sum of their best-hit
\* probabilities, and how many of them reach the high and the medium tier.
compute_best_hit(u, nu, refs, reads) ==
    LET hits(r) == SelectSeq(reads, LAMBDA read : BestHit(u, nu, read).ref = r)
        probs(r) == [k \in DOMAIN hits(r) |-> BestHit(u, nu, hits(r)[k]).prob]
    IN  [best_hit_reads |-> [r \in DOMAIN refs |-> Len(hits(r))],
         best_hit |-> [r \in DOMAIN refs |-> SumSeq(probs(r))],
         level_1 |-> [r \in DOMAIN refs |->
                        Len(SelectSeq(probs(r), LAMBDA p : p >= HighTier))],
         level_2 |-> [r \in DOMAIN refs |->
                        Len(SelectSeq(probs(r), LAMBDA p : p >= MediumTier))]]

\* The probability mass the ambiguous reads in S give reference r.
RECURSIVE MassOver(_, _, _)
MassOver(nu, S, r) ==
    IF S = {}
    THEN 0
    ELSE LET read == CHOOSE x \in S : TRUE
         IN  SumSeq([j \in DOMAIN nu[read] |->
                        IF nu[read][j].ref = r THEN nu[read][j].prob ELSE 0])
             + MassOver(nu, S \ {read}, r)

Mass(nu, r) == MassOver(nu, DOMAIN nu, r)

UniqueCount(u, r) == Cardinality({read \in DOMAIN u : u[read].ref = r})

\* The expectation step: each ambiguous read's posterior over its
\* candidates, proportional to pi[reference] * weight.
EStep(nu, pi, theta_prior) ==
    Dict([read \in DOMAIN nu |->
        LET raw == List([j \in DOMAIN nu[read] |->
                       pi[nu[read][j].ref] * nu[read][j].weight + theta_prior])
            total == SumSeq(raw)
        IN  List([j \in DOMAIN nu[read] |->
                [nu[read][j] EXCEPT
                    !.prob = IF total = 0 THEN @
                             ELSE (raw[j] * Scale) \div total]])])

\* The maximization step: pi from the unique counts, the posterior mass and
\* the abundance prior, renormalized.
MStep(u, nu, refs, pi_prior) ==
    LET raw == List([r \in DOMAIN refs |->
                   UniqueCount(u, r) * Scale + Mass(nu, r) + pi_prior])
        total == SumSeq(raw)
    IN  List([r \in DOMAIN refs |->
            IF total = 0 THEN 0 ELSE (raw[r] * Scale) \div total])

\* The iterations of EM from the state (pi, nu), with `left` of the budget
\* left: until pi moves by less than 1/inverse_tolerance or the budget is
\* exhausted.
RECURSIVE Iterate(_, _, _, _, _, _, _, _)
Iterate(u, nu, refs, pi, left, inverse_tolerance, pi_prior, theta_prior) ==
    IF left = 0
    THEN [pi |-> pi, nu |-> nu]
    ELSE LET nu2 == EStep(nu, pi, theta_prior)
             pi2 == MStep(u, nu2, refs, pi_prior)
             moved == SumSeq([r \in DOMAIN refs |-> Abs(pi2[r] - pi[r])])
         IN  IF moved * (inverse_tolerance \div Scale) < 1
             THEN [pi |-> pi2, nu |-> nu2]
             ELSE Iterate(u, nu2, refs, pi2, left - 1,
                          inverse_tolerance, pi_prior, theta_prior)

\* pathoscope.em(u, nu, refs, max_iter, tolerance, pi_prior, theta_prior):
\* init_pi, pi, and nu with the posteriors.  pi starts proportional to the
\* unique-read support, and uniform when no read is unique.
em(u, nu, refs, max_iter, inverse_tolerance, pi_prior, theta_prior) ==
    LET init_pi ==
            List([r \in DOMAIN refs |->
                IF DOMAIN u = {}
                THEN Scale \div Len(refs)
                ELSE (UniqueCount(u, r) * Scale) \div Cardinality(DOMAIN u)])
        final == Iterate(u, nu, refs, init_pi, max_iter, inverse_tolerance,
                         pi_prior, theta_prior)
    IN  [init_pi |-> init_pi, pi |-> final.pi, nu |-> final.nu]

\* The posterior of a read on a reference index: 1 for a unique read.
Posterior(u, nu, read, r) ==
    IF read \in DOMAIN u
    THEN IF u[read].ref = r THEN Scale ELSE 0
    ELSE SumSeq([j \in DOMAIN nu[read] |->
                    IF nu[read][j].ref = r THEN nu[read][j].prob ELSE 0])

\* pathoscope.rewrite_align(u, nu, vta_path, p_score_cutoff, path): the
\* records of the .vta file whose (read, reference) posterior meets the
\* cutoff, in order.
rewrite_align(u, nu, records, p_score_cutoff) ==
    SelectSeq(records,
              LAMBDA rec :
                  Posterior(u, nu, rec[1], IndexOf(VtaRefs(records), rec[2]))
                      >= p_score_cutoff)

\* The depth at 0-based position p of a reference: the number of its
\* alignments that cover p.  The position of a record is 1-based.
DepthAt(records, ref, p) ==
    Len(SelectSeq(records,
                  LAMBDA rec : /\ rec[2] = ref
                               /\ NumberOf[rec[3]] - 1 <= p
                               /\ p < NumberOf[rec[3]] - 1 + NumberOf[rec[4]]))

\* pathoscope.calculate_coverage(reassigned_path, ref_lengths): a depth
\* array for every reference that has a reassigned alignment and a length;
\* alignments are clamped at the end of the array.
calculate_coverage(records, ref_lengths) ==
    [ref \in ElementsOf(VtaRefs(records)) \cap DOMAIN ref_lengths |->
        [k \in 1 .. ref_lengths[ref] |-> DepthAt(records, ref, k - 1)]]

\* pathoscope.write_report(path, pi, refs, read_count, init_pi, ...): one
\* entry <<ref_id, hit>> for each reference with any hit, in the order of
\* refs.
write_report(pi, refs, read_count, init_pi, initial, final) ==
    LET hit == Ascending({r \in DOMAIN refs :
                            \/ pi[r] > 0
                            \/ initial.best_hit_reads[r] > 0
                            \/ final.best_hit_reads[r] > 0})
    IN  [k \in DOMAIN hit |->
            <<refs[hit[k]],
              [pi |-> pi[hit[k]],
               init_pi |-> init_pi[hit[k]],
               reads |-> read_count,
               best_hit_initial |-> initial.best_hit[hit[k]],
               best_hit_initial_reads |-> initial.best_hit_reads[hit[k]],
               level_1_initial |-> initial.level_1[hit[k]],
               level_2_initial |-> initial.level_2[hit[k]],
               best_hit_final |-> final.best_hit[hit[k]],
               best_hit_final_reads |-> final.best_hit_reads[hit[k]],
               level_1_final |-> final.level_1[hit[k]],
               level_2_final |-> final.level_2[hit[k]]]>>]

-----------------------------------------------------------------------------
(* job.py: run_patho and the stages of PathoscopeBowtie.                   *)

\* job.py line 438: the iteration budget of em
EmMaxIter == 50

\* job.py line 438: the tolerance of em, 1e-7, as its inverse
EmInverseTolerance == 10000000

\* job.py line 438: the two priors of em
EmPiPrior == 0

EmThetaPrior == 0

\* job.py line 447: the cutoff of rewrite_align, 0.01
RewriteCutoff == Scale \div 100

\* A dict with key k set to v, and with key k deleted.
Put(d, k, v) == [x \in DOMAIN d \cup {k} |-> IF x = k THEN v ELSE d[x]]

Del(d, k) == [x \in DOMAIN d \ {k} |-> d[x]]

\* {"$set": update} applied to a document.
SetFields(doc, update) ==
    [x \in DOMAIN doc \cup DOMAIN update |->
        IF x \in DOMAIN update THEN update[x] ELSE doc[x]]

EmptyDict == [x \in {} |-> 0]

\* round(): to the nearest integer, a half to the even one.
Round(num, den) ==
    LET q == num \div den
        r == num % den
    IN  IF 2 * r < den THEN q
        ELSE IF 2 * r > den THEN q + 1
        ELSE IF q % 2 = 0 THEN q ELSE q + 1

\* run_patho with the first best-hit statistics taken after EM, from the NU
\* that em returned.
run_patho_best_hit_after_em(records) ==
    LET m == build_matrix(records)
        e == em(m.u, m.nu, m.refs, EmMaxIter, EmInverseTolerance,
                EmPiPrior, EmThetaPrior)
        initial == compute_best_hit(m.u, e.nu, m.refs, m.reads)
        final == compute_best_hit(m.u, e.nu, m.refs, m.reads)
        rewritten == rewrite_align(m.u, e.nu, records, RewriteCutoff)
    IN  [initial |-> initial,
         final |-> final,
         init_pi |-> e.init_pi,
         pi |-> e.pi,
         refs |-> m.refs,
         reads |-> m.reads,
         reassigned |-> rewritten,
         calls |->
            <<[fn |-> "build_matrix", nu |-> EmptyDict, args |-> <<>>],
              [fn |-> "em", nu |-> m.nu,
               args |-> <<EmMaxIter, EmInverseTolerance, EmPiPrior,
                          EmThetaPrior>>],
              [fn |-> "compute_best_hit", nu |-> e.nu, args |-> <<>>],
              [fn |-> "compute_best_hit", nu |-> e.nu, args |-> <<>>],
              [fn |-> "rewrite_align", nu |-> e.nu,
               args |-> <<RewriteCutoff>>]>>]

\* run_patho (lines 428-462): what it returns, the reassigned alignments it
\* writes, and the calls it makes to pathoscope, in order.
run_patho(records) ==
    LET m == build_matrix(records)
        initial == compute_best_hit(m.u, m.nu, m.refs, m.reads)
        e == em(m.u, m.nu, m.refs, EmMaxIter, EmInverseTolerance,
                EmPiPrior, EmThetaPrior)
        final == compute_best_hit(m.u, e.nu, m.refs, m.reads)
        rewritten == rewrite_align(m.u, e.nu, records, RewriteCutoff)
    IN  [initial |-> initial,
         final |-> final,
         init_pi |-> e.init_pi,
         pi |-> e.pi,
         refs |-> m.refs,
         reads |-> m.reads,
         reassigned |-> rewritten,
         calls |->
            <<[fn |-> "build_matrix", nu |-> EmptyDict, args |-> <<>>],
              [fn |-> "compute_best_hit", nu |-> m.nu, args |-> <<>>],
              [fn |-> "em", nu |-> m.nu,
               args |-> <<EmMaxIter, EmInverseTolerance, EmPiPrior,
                          EmThetaPrior>>],
              [fn |-> "compute_best_hit", nu |-> e.nu, args |-> <<>>],
              [fn |-> "rewrite_align", nu |-> e.nu,
               args |-> <<RewriteCutoff>>]>>]

\* A stage list that runs pathoscope before the subtraction.
StageListPathoscopeBeforeSubtraction ==
    <<"mk_analysis_dir", "map_otus", "generate_isolate_fasta",
      "build_isolate_index", "map_isolates", "pathoscope", "map_subtraction",
      "subtract_mapping", "import_results", "cleanup_indexes">>

\* __init__ (lines 32-44).
StageList ==
    <<"mk_analysis_dir", "map_otus", "generate_isolate_fasta",
      "build_isolate_index", "map_isolates", "map_subtraction",
      "subtract_mapping", "pathoscope", "import_results", "cleanup_indexes">>

\* The stage named is the next to run.
AtStage(name) ==
    /\ status = "running"
    /\ stage \in DOMAIN StageList
    /\ StageList[stage] = name

\* The stage returns: the job goes on to the next one, or completes.
Returns(name) ==
    /\ stage' = stage + 1
    /\ log' = Append(log, name)
    /\ status' = IF stage = Len(StageList) THEN "complete" ELSE "running"
    /\ error' = ""

\* The stage raises: the job fails.
Raises(e) ==
    /\ status' = "failed"
    /\ error' = e
    /\ UNCHANGED <<stage, log>>

\* mk_analysis_dir (lines 105-110).
mk_analysis_dir ==
    /\ AtStage("mk_analysis_dir")
    /\ IF analysis_dir
       THEN Raises("FileExistsError") /\ UNCHANGED analysis_dir
       ELSE Returns("mk_analysis_dir") /\ analysis_dir' = TRUE
    /\ UNCHANGED <<task_args, intermediate, results, batch, vta, reassigned,
                   patho, analysis, json_file, io_log, cov_vars,
                   import_pc>>

\* map_otus (lines 112-156).
map_otus ==
    /\ AtStage("map_otus")
    /\ \E lines \in Batches(OtuLines, MaxOtuLines) :
          LET run == RunSubprocess(lines,
                          [k \in DOMAIN lines |-> OtusHandler(lines[k])])
          IN  /\ batch' = [stage |-> "map_otus", lines |-> lines,
                           handled |-> run.handled]
              /\ IF run.raised # ""
                 THEN Raises(run.raised) /\ UNCHANGED intermediate
                 ELSE /\ Returns("map_otus")
                      /\ intermediate' =
                            Put(intermediate, "to_otus", ElementsOf(run.emitted))
    /\ UNCHANGED <<task_args, results, analysis_dir, vta, reassigned, patho,
                   analysis, json_file, io_log, cov_vars,
                   import_pc>>

\* generate_isolate_fasta (lines 158-184): the sequences of every otu that
\* has a hit sequence go to isolate_index.fa, and their lengths to
\* ref_lengths.
generate_isolate_fasta ==
    /\ AtStage("generate_isolate_fasta")
    /\ LET otu_ids == {OtuOf(id) : id \in intermediate["to_otus"]}
           documents == {id \in SequenceIds : OtuOf(id) \in otu_ids}
           ref_lengths == [id \in documents |-> SequenceLength(id)]
       IN  intermediate' =
              Put(Del(Put(Put(intermediate, "otu_dict", task_args.otu_dict),
                          "sequence_otu_map",
                          [id \in {item[1] : item \in
                                      ElementsOf(task_args.sequence_otu_map)} |->
                              (CHOOSE item \in
                                  ElementsOf(task_args.sequence_otu_map) :
                                      item[1] = id)[2]]),
                      "to_otus"),
                  "ref_lengths", ref_lengths)
    /\ Returns("generate_isolate_fasta")
    /\ UNCHANGED <<task_args, results, batch, analysis_dir, vta, reassigned,
                   patho, analysis, json_file, io_log, cov_vars,
                   import_pc>>

\* build_isolate_index (lines 186-198).
build_isolate_index ==
    /\ AtStage("build_isolate_index")
    /\ Returns("build_isolate_index")
    /\ UNCHANGED <<task_args, intermediate, results, batch, analysis_dir, vta,
                   reassigned, patho, analysis, json_file, io_log, cov_vars,
                   import_pc>>

\* map_isolates (lines 200-251).
map_isolates ==
    /\ AtStage("map_isolates")
    /\ \E lines \in Batches(IsolateLines(DOMAIN intermediate["ref_lengths"]),
                           MaxIsolateLines) :
          LET run == RunSubprocess(lines,
                          [k \in DOMAIN lines |-> IsolatesHandler(lines[k])])
          IN  /\ batch' = [stage |-> "map_isolates", lines |-> lines,
                           handled |-> run.handled]
              /\ vta' = run.emitted
              /\ IF run.raised # ""
                 THEN Raises(run.raised)
                 ELSE Returns("map_isolates")
    /\ UNCHANGED <<task_args, intermediate, results, analysis_dir, reassigned,
                   patho, analysis, json_file, io_log, cov_vars,
                   import_pc>>

\* The reads of mapped.fastq: those the aligner of map_isolates aligned.
MappedReads(lines) ==
    {lines[k][1] : k \in {j \in DOMAIN lines :
                             /\ Len(lines[j]) >= 3
                             /\ IsNumber(lines[j][2])
                             /\ ~Bit4(NumberOf[lines[j][2]])
                             /\ lines[j][3] # "*"}}

\* map_subtraction (lines 253-290).
map_subtraction ==
    /\ AtStage("map_subtraction")
    /\ \E lines \in Batches(SubtractionLines(MappedReads(batch.lines)),
                           MaxSubtractionLines) :
          LET run == RunSubprocess(lines,
                          [k \in DOMAIN lines |-> SubtractionHandler(lines[k])])
              reads == {run.emitted[k][1] : k \in DOMAIN run.emitted}
              last(read) ==
                  -SetMin({-k : k \in {j \in DOMAIN run.emitted :
                                          run.emitted[j][1] = read}})
          IN  /\ batch' = [stage |-> "map_subtraction", lines |-> lines,
                           handled |-> run.handled]
              /\ IF run.raised # ""
                 THEN Raises(run.raised) /\ UNCHANGED intermediate
                 ELSE /\ Returns("map_subtraction")
                      /\ intermediate' =
                            Put(intermediate, "to_subtraction",
                                [read \in reads |-> run.emitted[last(read)][2]])
    /\ UNCHANGED <<task_args, results, analysis_dir, vta, reassigned, patho,
                   analysis, json_file, io_log, cov_vars,
                   import_pc>>

\* subtract_mapping (lines 292-300).
subtract_mapping ==
    /\ AtStage("subtract_mapping")
    /\ LET subtracted == subtract(vta, intermediate["to_subtraction"])
       IN  /\ vta' = subtracted.kept
           /\ results' = Put(results, "subtracted_count",
                             subtracted.subtracted_count)
    /\ intermediate' = Del(intermediate, "to_subtraction")
    /\ Returns("subtract_mapping")
    /\ UNCHANGED <<task_args, batch, analysis_dir, reassigned, patho,
                   analysis, json_file, io_log, cov_vars,
                   import_pc>>

\* The body of the loop of pathoscope (lines 356-380) for one item of the
\* report: the exception it raises, or the hit it appends.
DiagnoseHit(ref_id, hit, inter) ==
    IF ref_id \notin DOMAIN inter["sequence_otu_map"]
    THEN [raised |-> "KeyError", hit |-> hit]
    ELSE IF inter["sequence_otu_map"][ref_id] \notin DOMAIN inter["otu_dict"]
    THEN [raised |-> "KeyError", hit |-> hit]
    ELSE IF inter["otu_dict"][inter["sequence_otu_map"][ref_id]] = <<>>
    THEN [raised |-> "ValueError", hit |-> hit]
    ELSE IF ref_id \notin DOMAIN inter["coverage"]
    THEN [raised |-> "KeyError", hit |-> hit]
    ELSE LET hit_coverage == inter["coverage"][ref_id]
             zeros == Len(SelectSeq(hit_coverage, LAMBDA d : d = 0))
         IN  IF Len(hit_coverage) = 0
             THEN [raised |-> "ZeroDivisionError", hit |-> hit]
             ELSE [raised |-> "",
                   hit |-> SetFields(hit,
                       [id |-> ref_id,
                        otu |-> inter["otu_dict"][
                                    inter["sequence_otu_map"][ref_id]][1],
                        align |-> hit_coverage,
                        coverage |->
                            Round((Len(hit_coverage) - zeros) * Scale,
                                  Len(hit_coverage)),
                        depth |-> Round(SumSeq(hit_coverage),
                                        Len(hit_coverage))])]

\* for ref_id, hit in report.items() (line 355), from item k on: the
\* diagnosis list when the loop ends or raises.
RECURSIVE DiagnosisLoop(_, _, _, _)
DiagnosisLoop(report, k, diagnosis, inter) ==
    IF k > Len(report)
    THEN [raised |-> "", diagnosis |-> diagnosis]
    ELSE LET item == DiagnoseHit(report[k][1], report[k][2], inter)
         IN  IF item.raised # ""
             THEN [raised |-> item.raised, diagnosis |-> diagnosis]
             ELSE DiagnosisLoop(report, k + 1, Append(diagnosis, item.hit),
                                inter)

\* The report of lines 328-342 from what run_patho returned.
ReportOf(p) ==
    write_report(p.pi, p.refs, Len(p.reads), p.init_pi, p.initial, p.final)

\* pathoscope (lines 302-380).
pathoscope ==
    /\ AtStage("pathoscope")
    /\ LET p == run_patho(vta)
           inter == Put(intermediate, "coverage",
                        calculate_coverage(p.reassigned,
                                           intermediate["ref_lengths"]))
           loop == DiagnosisLoop(ReportOf(p), 1, <<>>, inter)
       IN  /\ patho' = <<p>>
           /\ reassigned' = <<p.reassigned>>
           /\ intermediate' = inter
           /\ results' = [ready |-> TRUE,
                          read_count |-> Len(p.reads),
                          diagnosis |-> loop.diagnosis]
           /\ IF loop.raised # ""
              THEN Raises(loop.raised)
              ELSE Returns("pathoscope")
    /\ UNCHANGED <<task_args, batch, analysis_dir, vta, analysis, json_file,
                   io_log, cov_vars,
                   import_pc>>

\* update_one({"_id": analysis_id}, {"$set": update}): no document, no
\* change.
UpdateOne(update) ==
    IF analysis = <<>> THEN analysis ELSE <<SetFields(analysis[1], update)>>

\* The except block with the document marked before the file is written.
ExceptBlockUpdateFirst == <<"update_one", "write", "dispatch">>

\* The statements of the except block of import_results (lines 397-409), in
\* order: pathoscope.json is written, the document is updated, the update
\* is dispatched.
ExceptBlock == <<"write", "update_one", "dispatch">>

\* import_results, the try block (lines 391-396).  Whether the document
\* with the results exceeds the size the database accepts is the database's
\* answer: it takes the update, and the stage returns, or it raises
\* DocumentTooLarge, and the except block is entered.
import_results ==
    /\ AtStage("import_results")
    /\ import_pc = 0
    /\ \E too_large \in BOOLEAN :
          IF ~too_large
          THEN /\ analysis' = UpdateOne(results)
               /\ io_log' = Append(io_log, "update_one: results")
               /\ Returns("import_results")
               /\ UNCHANGED import_pc
          ELSE /\ io_log' = Append(io_log, "update_one: DocumentTooLarge")
               /\ import_pc' = 1
               /\ UNCHANGED <<analysis, stage, status, error, log>>
    /\ UNCHANGED <<task_args, intermediate, results, batch, analysis_dir, vta,
                   reassigned, patho, json_file, cov_vars>>

\* import_results, one statement of the except block (lines 397-409).
\* Opening or writing pathoscope.json can fail, and nothing catches it;
\* after the last statement the stage returns.
import_results_except ==
    /\ AtStage("import_results")
    /\ import_pc \in DOMAIN ExceptBlock
    /\ \E written \in BOOLEAN :
          LET statement == ExceptBlock[import_pc]
              raised == statement = "write" /\ ~written
          IN  /\ json_file' = IF statement = "write" /\ written
                              THEN <<results>> ELSE json_file
              /\ analysis' = IF statement = "update_one"
                             THEN UpdateOne([diagnosis |-> "file",
                                             ready |-> TRUE])
                             ELSE analysis
              /\ io_log' =
                    Append(io_log,
                           CASE raised -> "write: OSError"
                             [] statement = "write" -> "write: pathoscope.json"
                             [] statement = "update_one" -> "update_one: file"
                             [] OTHER -> "dispatch: analyses update")
              /\ IF raised
                 THEN Raises("OSError") /\ import_pc' = 0
                 ELSE IF import_pc = Len(ExceptBlock)
                 THEN Returns("import_results") /\ import_pc' = 0
                 ELSE /\ import_pc' = import_pc + 1
                      /\ UNCHANGED <<stage, status, error, log>>
    /\ UNCHANGED <<task_args, intermediate, results, batch, analysis_dir, vta,
                   reassigned, patho, cov_vars>>

\* cleanup_indexes (lines 424-425).
cleanup_indexes ==
    /\ AtStage("cleanup_indexes")
    /\ Returns("cleanup_indexes")
    /\ UNCHANGED <<task_args, intermediate, results, batch, analysis_dir, vta,
                   reassigned, patho, analysis, json_file, io_log, cov_vars,
                   import_pc>>

\* cleanup (lines 411-422), which the job runs once a stage has failed: the
\* analysis document and the analysis directory are removed.
cleanup ==
    /\ status = "failed"
    /\ status' = "cleaned"
    /\ analysis' = <<>>
    /\ io_log' = Append(io_log, "delete_one")
    /\ analysis_dir' = FALSE
    /\ vta' = <<>>
    /\ reassigned' = <<>>
    /\ json_file' = <<>>
    /\ UNCHANGED <<stage, error, log, task_args, intermediate, results, batch,
                   patho, cov_vars,
                   import_pc>>

-----------------------------------------------------------------------------
(* The specifications.                                                     *)

\* tests/test_utils.py lines 8 and 12.
TestCoverage1 == <<0, 0, 1, 1, 2, 3, 3, 3, 4, 4, 3, 2>>

TestCoverage2 == <<0, 0, 1, 1, 2, 3, 3, 3, 4, 4, 3, 2, 1, 1>>

\* tests/test_utils.py lines 9 and 13.
TestExpected1 ==
    <<  <<0, 0>>, <<1, 0>>, <<2, 1>>, <<3, 1>>, <<4, 2>>, <<5, 3>>,
        <<7, 3>>, <<8, 4>>, <<9, 4>>, <<10, 3>>, <<11, 2>>  >>

TestExpected2 ==
    <<  <<0, 0>>, <<1, 0>>, <<2, 1>>, <<3, 1>>, <<4, 2>>, <<5, 3>>,
        <<7, 3>>, <<8, 4>>, <<9, 4>>, <<10, 3>>, <<11, 2>>, <<12, 1>>,
        <<13, 1>>  >>

\* A depth array with a change at every position.
LongCoverage == [i \in 1 .. LongLen |-> i % 2]

CoverageInputs ==
    UNION {[1 .. n -> 0 .. MaxDepth] : n \in 0 .. MaxLen}
        \cup {TestCoverage1, TestCoverage2, LongCoverage}

\* task_args: every otu of otu_dict has its (id, version), or otu1 has
\* False for want of a last_indexed_version.
OtuInfo(id) == <<[id |-> id, version |-> 1]>>

TaskArgs ==
    {[otu_dict |-> [id \in {"otu1", "otu2"} |->
                       IF id \in missing THEN <<>> ELSE OtuInfo(id)],
      sequence_otu_map |-> << <<"A", "otu1">>, <<"B", "otu1">>,
                              <<"C", "otu2">> >>]
        : missing \in {{}, {"otu1"}}}

\* No call of coverage_to_coordinates is in progress.
CoverageIdle ==
    /\ cov_pc = "idle"
    /\ coverage_list = <<>>
    /\ cov_i = 0
    /\ previous_depth = 0
    /\ coordinates = {}
    /\ compressed = <<>>

\* The job as constructed, before its first stage.
JobConstructed ==
    /\ stage = 1
    /\ status = "running"
    /\ error = ""
    /\ log = <<>>
    /\ intermediate = EmptyDict
    /\ results = EmptyDict
    /\ batch = [stage |-> "", lines |-> <<>>, handled |-> 0]
    /\ analysis_dir = FALSE
    /\ vta = <<>>
    /\ reassigned = <<>>
    /\ patho = <<>>
    /\ analysis = <<[ready |-> FALSE]>>
    /\ json_file = <<>>
    /\ io_log = <<>>
    /\ import_pc = 0

InitCoverage ==
    /\ cov_pc = "call"
    /\ coverage_list \in CoverageInputs
    /\ cov_i = 0
    /\ previous_depth = 0
    /\ coordinates = {}
    /\ compressed = <<>>
    /\ task_args = CHOOSE t \in TaskArgs : t.otu_dict["otu1"] # <<>>
    /\ JobConstructed

NextCoverage == CovEnter \/ CovIterate \/ CovReturn

SpecCoverage == InitCoverage /\ [][NextCoverage]_vars

Init ==
    /\ CoverageIdle
    /\ task_args \in TaskArgs
    /\ JobConstructed

Next ==
    \/ mk_analysis_dir
    \/ map_otus
    \/ generate_isolate_fasta
    \/ build_isolate_index
    \/ map_isolates
    \/ map_subtraction
    \/ subtract_mapping
    \/ pathoscope
    \/ import_results
    \/ import_results_except
    \/ cleanup_indexes
    \/ cleanup

Spec == Init /\ [][Next]_vars

-----------------------------------------------------------------------------
(* Properties of coverage_to_coordinates (SpecCoverage).                   *)

\* The call has returned and line 21 was not taken.
ReturnedUnsimplified ==
    cov_pc = "return" /\ Len(coordinates) <= SimplifyThreshold

\* C1: for a non-empty depth array with at most 100 change-point pairs the
\* value returned is exactly the pairs (0, depth[0]) and, for every index i
\* whose depth differs from the depth before it or that is the last index,
\* (i-1, depth before) and (i, depth[i]), each once, ascending by position;
\* the array of the test yields the list of the test.
C1_ChangePointList ==
    ReturnedUnsimplified =>
        LET n == Len(coverage_list)
            D(p) == coverage_list[p + 1]
            Before(i) == IF i = 0 THEN D(0) ELSE D(i - 1)
            emitting == {i \in 0 .. n - 1 : D(i) # Before(i) \/ i = n - 1}
            expected ==
                {<<0, D(0)>>} \cup
                UNION {{<<i - 1, Before(i)>>, <<i, D(i)>>} : i \in emitting}
        IN  /\ ElementsOf(compressed) = expected
            /\ Len(compressed) = Cardinality(expected)
            /\ \A k \in 1 .. Len(compressed) - 1 :
                   compressed[k][1] <= compressed[k + 1][1]
            /\ coverage_list = TestCoverage1 => compressed = TestExpected1
            /\ coverage_list = TestCoverage2 => compressed = TestExpected2

C1_Witness ==
    /\ ReturnedUnsimplified
    /\ coverage_list = TestCoverage1
    /\ compressed = TestExpected1

\* C2: when the result is not simplified, every returned pair (p, d) has p
\* a valid index of the array and d the depth at p.
C2_RoundTripOfShape ==
    ReturnedUnsimplified =>
        \A k \in DOMAIN compressed :
            /\ compressed[k][1] \in 0 .. Len(coverage_list) - 1
            /\ compressed[k][2] = coverage_list[compressed[k][1] + 1]

\* C10: the sorted change-point list, before any simplification, holds no
\* two pairs with the same position, so the sort has one possible outcome.
C10_PositionsStrictlyIncrease ==
    cov_pc = "return" =>
        /\ \A k \in 1 .. Len(coordinates) - 1 :
               coordinates[k][1] < coordinates[k + 1][1]
        /\ SortedByPosition(ElementsOf(coordinates)) = {coordinates}

\* A change at every index: each interior pair is emitted twice, as (i, d)
\* and as (i - 1, previous), and kept once.
C10_Witness ==
    /\ cov_pc = "return"
    /\ Len(coverage_list) = 3
    /\ coverage_list[1] # coverage_list[2]
    /\ coverage_list[2] # coverage_list[3]
    /\ Len(coordinates) = 3

-----------------------------------------------------------------------------
(* Properties of the job (Spec).                                           *)

Ran(name) == name \in ElementsOf(log)

\* The claim's test of a line of map_isolates: a record, not a header,
\* mapped, with a reference and a weight that is not below 0.01.
Accepted(line) ==
    /\ FirstChar(line) = "r"
    /\ Len(line) >= 12
    /\ IsNumber(line[2])
    /\ ~Bit4(NumberOf[line[2]])
    /\ line[3] # "*"
    /\ find_sam_align_score(line).raised = ""
    /\ find_sam_align_score(line).score * 100 >= Scale

\* C3: after map_isolates has handled the aligner's lines, to_isolates.vta
\* holds one record for each accepted line and nothing else, in input
\* order, as read_id, reference_id, position, length of the read sequence,
\* score.
C3_AcceptedRecordsWritten ==
    (batch.stage = "map_isolates" /\ status # "cleaned") =>
        LET accepted == SelectSeq(batch.lines, Accepted)
        IN  vta = List([k \in DOMAIN accepted |->
                          <<accepted[k][1], accepted[k][3], accepted[k][4],
                            Str(TextLen(accepted[k][10])),
                            Str(find_sam_align_score(accepted[k]).score)>>])

\* C4: the pathoscope stage, which builds the matrix and runs EM, starts
\* only after map_isolates, map_subtraction and subtract_mapping have
\* returned, in that order, and import_results runs only after pathoscope
\* has returned.
C4_SubtractionBeforePathoscope ==
    /\ patho # <<>> =>
          /\ Ran("map_isolates") /\ Ran("map_subtraction")
          /\ Ran("subtract_mapping")
          /\ IndexOf(log, "map_isolates") < IndexOf(log, "map_subtraction")
          /\ IndexOf(log, "map_subtraction") < IndexOf(log, "subtract_mapping")
          /\ "to_subtraction" \notin DOMAIN intermediate
    /\ Ran("pathoscope") =>
          /\ patho # <<>>
          /\ IndexOf(log, "subtract_mapping") < IndexOf(log, "pathoscope")
    /\ (Ran("import_results") \/
            \E k \in DOMAIN io_log : io_log[k] # "delete_one") =>
          Ran("pathoscope")
    /\ Ran("import_results") =>
          IndexOf(log, "pathoscope") < IndexOf(log, "import_results")

\* A run that completed, in which the subtraction removed read r2 before
\* the matrix was built from the reads left.
C4_Witness ==
    /\ status = "complete"
    /\ batch.stage = "map_subtraction"
    /\ \E k \in DOMAIN batch.lines : batch.lines[k][1] = "r2"
    /\ patho # <<>>
    /\ patho[1].reads # <<>>
    /\ "r2" \notin ElementsOf(patho[1].reads)

\* C5: run_patho calls build_matrix, compute_best_hit on the matrix as
\* built, em once with budget 50, tolerance 1e-7 and priors 0, 0,
\* compute_best_hit on the NU that em returned, and rewrite_align with that
\* NU and cutoff 0.01, in this order and nothing else; the initial best-hit
\* results it returns, and those in the diagnosis, are the ones computed
\* before em.
C5_BestHitBeforeAndAfterEm ==
    (patho # <<>> /\ status # "cleaned") =>
        LET p == patho[1]
            m == build_matrix(vta)
            e == em(m.u, m.nu, m.refs, 50, 10000000, 0, 0)
        IN  /\ [k \in DOMAIN p.calls |-> p.calls[k].fn] =
                  <<"build_matrix", "compute_best_hit", "em",
                    "compute_best_hit", "rewrite_align">>
            /\ p.calls[2].nu = m.nu
            /\ p.calls[3].nu = m.nu
            /\ p.calls[3].args = <<50, 10000000, 0, 0>>
            /\ p.calls[4].nu = e.nu
            /\ p.calls[5].nu = e.nu
            /\ p.calls[5].args = <<Scale \div 100>>
            /\ p.initial = compute_best_hit(m.u, m.nu, m.refs, m.reads)
            /\ p.final = compute_best_hit(m.u, e.nu, m.refs, m.reads)
            /\ reassigned = <<rewrite_align(m.u, e.nu, vta, Scale \div 100)>>
            /\ \A k \in DOMAIN results.diagnosis :
                  LET hit == results.diagnosis[k]
                      r == IndexOf(m.refs, hit.id)
                  IN  /\ hit.best_hit_initial = p.initial.best_hit[r]
                      /\ hit.best_hit_initial_reads = p.initial.best_hit_reads[r]
                      /\ hit.level_1_initial = p.initial.level_1[r]
                      /\ hit.level_2_initial = p.initial.level_2[r]

\* A completed run in which EM changed the NU it was given and the best
\* hits with it.
C5_Witness ==
    /\ status = "complete"
    /\ patho # <<>>
    /\ patho[1].calls[2].nu # patho[1].calls[4].nu
    /\ patho[1].initial # patho[1].final
    /\ results.diagnosis # <<>>

\* C6: once import_results has run, what it committed, to the analysis
\* document or to pathoscope.json, contains subtracted_count.
C6_SubtractedCountCommitted ==
    Ran("import_results") =>
        \/ analysis # <<>> /\ "subtracted_count" \in DOMAIN analysis[1]
        \/ json_file # <<>> /\ "subtracted_count" \in DOMAIN json_file[1]

\* A record with a wrong field count or a non-numeric flag.
Malformed(line) ==
    /\ FirstChar(line) = "r"
    /\ (Len(line) < 12 \/ ~IsNumber(line[2]))

\* C7: a batch of map_otus, map_isolates or map_subtraction that holds a
\* malformed record is handled to its last line and its stage does not
\* fail.
C7_MalformedRecordSkipped ==
    (/\ batch.stage \in {"map_otus", "map_isolates", "map_subtraction"}
     /\ \E k \in DOMAIN batch.lines : Malformed(batch.lines[k])) =>
        /\ batch.handled = Len(batch.lines)
        /\ ~(status \in {"failed", "cleaned"} /\ StageList[stage] = batch.stage)

\* C8: when every otu is indexed and a reference of the report has no
\* coverage profile, the pathoscope stage raises nothing and the diagnosis
\* holds exactly the references of the report that have one, in order.
C8_ReferenceWithoutCoverageOmitted ==
    (/\ patho # <<>>
     /\ \A id \in DOMAIN task_args.otu_dict : task_args.otu_dict[id] # <<>>
     /\ \E k \in DOMAIN ReportOf(patho[1]) :
           ReportOf(patho[1])[k][1] \notin DOMAIN intermediate["coverage"]) =>
        /\ error = ""
        /\ [k \in DOMAIN results.diagnosis |-> results.diagnosis[k].id] =
              SelectSeq([k \in DOMAIN ReportOf(patho[1]) |->
                            ReportOf(patho[1])[k][1]],
                        LAMBDA ref : ref \in DOMAIN intermediate["coverage"])

\* C9: every hit of the diagnosis carries under align the coordinates that
\* coverage_to_coordinates gives for the dense depth array of its
\* reference, not the array, and its coverage and depth are those of the
\* array.
C9_DiagnosisCarriesCoordinates ==
    "diagnosis" \in DOMAIN results =>
        \A k \in DOMAIN results.diagnosis :
            LET hit == results.diagnosis[k]
                dense == intermediate["coverage"][hit.id]
                zeros == Len(SelectSeq(dense, LAMBDA d : d = 0))
            IN  /\ ToString(hit.align) \in
                      {ToString(c) : c \in coverage_to_coordinates(dense)}
                /\ hit.align # dense
                /\ hit.coverage = Round((Len(dense) - zeros) * Scale, Len(dense))
                /\ hit.depth = Round(SumSeq(dense), Len(dense))

\* The analysis document says that the results are in pathoscope.json.
PointsToFile ==
    /\ analysis # <<>>
    /\ "diagnosis" \in DOMAIN analysis[1]
    /\ ToString(analysis[1].diagnosis) = ToString("file")

\* C11: once import_results has returned, the analysis document is marked
\* ready, with the results in it on the direct path; and in every state,
\* also inside import_results, a document whose diagnosis is "file" has
\* pathoscope.json written with the full results, the write coming before
\* the update of the document.
C11_FileWrittenBeforeDocumentPointsToIt ==
    /\ Ran("import_results") =>
          /\ analysis # <<>>
          /\ analysis[1].ready = TRUE
          /\ json_file = <<>> =>
                /\ ~PointsToFile
                /\ ToString(analysis[1].diagnosis) = ToString(results.diagnosis)
                /\ analysis[1].read_count = results.read_count
          /\ json_file # <<>> => PointsToFile
    /\ PointsToFile =>
          /\ json_file = <<results>>
          /\ "write: pathoscope.json" \in ElementsOf(io_log)
          /\ "update_one: file" \in ElementsOf(io_log)
          /\ IndexOf(io_log, "write: pathoscope.json") <
                IndexOf(io_log, "update_one: file")

\* A completed run that took the fallback: the document points to the file
\* and the file holds a diagnosis with a hit.
C11_Witness ==
    /\ status = "complete"
    /\ PointsToFile
    /\ analysis[1].ready = TRUE
    /\ json_file # <<>>
    /\ json_file[1].diagnosis # <<>>

=============================================================================
